---- MODULE Spec2Model ----
(***************************************************************************)
(* Model of the FSDlib Config Manager (src/abc.py).                        *)
(*                                                                         *)
(* Strings are sequences of one-character strings, so that upper(),        *)
(* lower(), split(), strip(), sorting and path building are computed as    *)
(* the Python code computes them.                                          *)
(*                                                                         *)
(* CaseInsensitiveDict, ConfigFile and LocalDirectory live in fsd2.core,   *)
(* outside src/; they are modelled from the specification: a dictionary    *)
(* that folds the case of its keys and keeps the casing of the last write, *)
(* a parser that fails on a missing or unparseable file and keeps the raw  *)
(* section labels, a flat directory of files.                              *)
(*                                                                         *)
(* Where Python leaves an order open (set.pop(), the iteration order of a  *)
(* dict whose keys collide once folded) an operator returns the set of     *)
(* all results and the action takes any of them.                           *)
(*                                                                         *)
(* ShellCommand.execute (src/shell.py) is modelled as two threads, the     *)
(* caller and the worker it starts, and the child process; every step of   *)
(* one may come between two steps of another.                              *)
(***************************************************************************)
EXTENDS Integers, Sequences, FiniteSets, TLC

VARIABLES store, cm, cm2, ret, shell

vars == <<store, cm, cm2, ret, shell>>

(***************************************************************************)
(* Bounds of the model.                                                    *)
(***************************************************************************)
\* longest filename handed to get_flow_id, counted in tokens of NameTokens
MaxTokens == 4

\* most namespaces named in one constructor or get_configs call
MaxReq == 2

(***************************************************************************)
(* Characters and strings.                                                 *)
(***************************************************************************)
LowerLetters ==
    <<"a","b","c","d","e","f","g","h","i","j","k","l","m",
      "n","o","p","q","r","s","t","u","v","w","x","y","z">>

UpperLetters ==
    <<"A","B","C","D","E","F","G","H","I","J","K","L","M",
      "N","O","P","Q","R","S","T","U","V","W","X","Y","Z">>

Digits == {"0","1","2","3","4","5","6","7","8","9"}

\* the characters of the model in code point order (what sorted() compares)
CodePoints ==
    <<" ", ",", ".", "/">> \o <<"0","1","2","3","4","5","6","7","8","9">>
    \o <<":">> \o UpperLetters \o <<"_">> \o LowerLetters

Ord(c) == CHOOSE i \in 1..Len(CodePoints) : CodePoints[i] = c

CharUpper(c) ==
    IF \E i \in 1..26 : LowerLetters[i] = c
    THEN UpperLetters[CHOOSE i \in 1..26 : LowerLetters[i] = c]
    ELSE c

CharLower(c) ==
    IF \E i \in 1..26 : UpperLetters[i] = c
    THEN LowerLetters[CHOOSE i \in 1..26 : UpperLetters[i] = c]
    ELSE c

\* unicode.upper() / unicode.lower()
Upper(s) == [i \in 1..Len(s) |-> CharUpper(s[i])]

Lower(s) == [i \in 1..Len(s) |-> CharLower(s[i])]

\* s[i:] with a 0-based start, as Python slices
From(s, i) == SubSeq(s, i + 1, Len(s))

\* s[:i]
UpTo(s, i) == SubSeq(s, 1, i)

\* s.rfind(c), 0-based, -1 when c does not occur
RFind(s, c) ==
    IF \E i \in 1..Len(s) : s[i] = c
    THEN (CHOOSE i \in 1..Len(s) : s[i] = c /\ \A j \in (i+1)..Len(s) : s[j] # c) - 1
    ELSE -1

StartsWith(s, p) == Len(p) <= Len(s) /\ SubSeq(s, 1, Len(p)) = p

EndsWith(s, p) == Len(p) <= Len(s) /\ SubSeq(s, Len(s) - Len(p) + 1, Len(s)) = p

\* s.split(sep) for a non-empty separator: the list of pieces, empty ones kept
RECURSIVE SplitFrom(_, _, _, _)
SplitFrom(s, sep, i, piece) ==
    IF i > Len(s) THEN <<piece>>
    ELSE IF StartsWith(SubSeq(s, i, Len(s)), sep)
         THEN <<piece>> \o SplitFrom(s, sep, i + Len(sep), <<>>)
         ELSE SplitFrom(s, sep, i + 1, Append(piece, s[i]))

Split(s, sep) == SplitFrom(s, sep, 1, <<>>)

\* re.split('[ ._]', s): split at every single separator character
RECURSIVE SplitCharsFrom(_, _, _, _)
SplitCharsFrom(s, seps, i, piece) ==
    IF i > Len(s) THEN <<piece>>
    ELSE IF s[i] \in seps
         THEN <<piece>> \o SplitCharsFrom(s, seps, i + 1, <<>>)
         ELSE SplitCharsFrom(s, seps, i + 1, Append(piece, s[i]))

SplitChars(s, seps) == SplitCharsFrom(s, seps, 1, <<>>)

\* sep.join(parts)
RECURSIVE Join(_, _)
Join(sep, parts) ==
    IF Len(parts) = 0 THEN <<>>
    ELSE IF Len(parts) = 1 THEN parts[1]
    ELSE parts[1] \o sep \o Join(sep, Tail(parts))

\* filter(lambda x: x, parts): the non-empty pieces, in order
NonEmpty(parts) == SelectSeq(parts, LAMBDA p : Len(p) > 0)

\* unicode.strip() for the whitespace of the model (the space)
RECURSIVE Strip(_)
Strip(s) ==
    IF Len(s) = 0 THEN s
    ELSE IF s[1] = " " THEN Strip(Tail(s))
    ELSE IF s[Len(s)] = " " THEN Strip(SubSeq(s, 1, Len(s) - 1))
    ELSE s

\* s < t as Python compares unicode strings (code point by code point)
RECURSIVE StrLess(_, _)
StrLess(s, t) ==
    IF Len(t) = 0 THEN FALSE
    ELSE IF Len(s) = 0 THEN TRUE
    ELSE IF s[1] = t[1] THEN StrLess(Tail(s), Tail(t))
    ELSE Ord(s[1]) < Ord(t[1])

\* Python's None where a string may stand (no string of characters equals it)
None == <<"None">>

\* no ConfigManager instance constructed yet
NoCM == [tag |-> "none"]

\* no ShellCommand
NoShell == [tag |-> "none"]

(***************************************************************************)
(* get_flow_id: the Flow Normalizer.                                       *)
(***************************************************************************)
\* posixpath.split(p)[1]: what follows the last slash
PathTail(p) == From(p, RFind(p, "/") + 1)

\* posixpath.splitext(p)[0]: the extension starts at the last dot, unless
\* only dots precede that dot in the file name
SplitExtRoot(p) ==
    LET sepIndex == RFind(p, "/")
        dotIndex == RFind(p, ".")
    IN IF dotIndex > sepIndex
          /\ \E f \in (sepIndex + 1)..(dotIndex - 1) : p[f + 1] # "."
       THEN UpTo(p, dotIndex)
       ELSE p

DigitsAt(s, i, n) ==
    i + n - 1 <= Len(s) /\ \A j \in i..(i + n - 1) : s[j] \in Digits

\* one alternative of the date pattern matches at position i (1-based); the
\* inline (?i) makes the whole pattern case-insensitive
DateMatchAt(s, i) ==
    \/ DigitsAt(s, i, 8)
    \/ DigitsAt(s, i, 6) /\ i + 6 <= Len(s) /\ s[i + 6] = "_"
    \/ CharUpper(s[i]) = "W" /\ i + 1 <= Len(s) /\ CharUpper(s[i + 1]) = "E"
       /\ DigitsAt(s, i + 2, 6)
    \/ CharUpper(s[i]) = "D" /\ DigitsAt(s, i + 1, 6)

\* re.sub(pattern, "", s): every alternative ends in .*, so the leftmost
\* match runs to the end of the name and what is left is the text before it
StripDate(s) ==
    IF \E i \in 1..Len(s) : DateMatchAt(s, i)
    THEN UpTo(s, (CHOOSE i \in 1..Len(s) :
                    DateMatchAt(s, i) /\ \A j \in 1..(i - 1) : ~DateMatchAt(s, j)) - 1)
    ELSE s

NormName(filename) ==
    Join(<<"_">>, NonEmpty(SplitChars(Upper(StripDate(filename)), {" ", ".", "_"})))

\* get_flow_id without the blank-value check of lines 44-49
get_flow_id_unchecked(orig_filename) ==
    IF orig_filename # None /\ orig_filename # <<>>
    THEN [tag |-> "return", value |-> NormName(SplitExtRoot(PathTail(orig_filename)))]
    ELSE [tag |-> "return", value |-> None]

get_flow_id(orig_filename) ==
    IF orig_filename # None /\ orig_filename # <<>>
    THEN LET filename == SplitExtRoot(PathTail(orig_filename))
             normname == NormName(filename)
         IN IF normname = <<>>
            THEN [tag |-> "raise", type |-> "Exception", filename |-> orig_filename]
            ELSE [tag |-> "return", value |-> normname]
    ELSE [tag |-> "return", value |-> None]

(***************************************************************************)
(* Module constants of src/abc.py.                                         *)
(***************************************************************************)
\* s.replace(old, new)
Replace(s, old, new) == Join(new, Split(s, old))

\* the configuration root; the environment-specific directory is abbreviated
CM_PATH == <<"/","c","m","/">>

CM_MASK == <<"C","M","_","F","S","D","_","*",".","p","r","m">>

CM_FLOW_MASK == Replace(CM_MASK, <<"*">>, <<"F","L","O","W","_","*">>)

CM_GEN_MASK == Replace(CM_FLOW_MASK, <<"*">>, <<"G","E","N","_","*">>)

PRM == <<".","p","r","m">>

PARSE_SIMPLE == "SIMPLE"

PARSE_FULL == "FULL"

\* fnmatch(name, mask) for a mask whose only wildcard is one "*"
FnMatch(name, mask) ==
    LET parts == Split(mask, <<"*">>)
    IN /\ Len(name) >= Len(parts[1]) + Len(parts[2])
       /\ StartsWith(name, parts[1])
       /\ EndsWith(name, parts[2])

(***************************************************************************)
(* CaseInsensitiveDict (fsd2.core.utils): keys are compared with their     *)
(* letter case folded, the casing of the last write is what iteration      *)
(* yields.  A dictionary is a function from the folded key to the key as   *)
(* last written and its value.                                             *)
(***************************************************************************)
\* the folded form of a (section, key) pair
FoldPair(key) == <<Lower(key[1]), Lower(key[2])>>

EmptyDict == <<>>

\* CaseInsensitiveDict.update(other)
CIDUpdate(c, other) ==
    [n \in DOMAIN c \cup DOMAIN other |->
        IF n \in DOMAIN other THEN other[n] ELSE c[n]]

\* iterkeys(): the keys as last written
CIDKeys(c) == {c[n].key : n \in DOMAIN c}

\* every way of choosing, for each n of N, one element of alts[n]
RECURSIVE Choices(_, _)
Choices(N, alts) ==
    IF N = {} THEN {<<>>}
    ELSE LET n == CHOOSE x \in N : TRUE
         IN {(n :> a) @@ f : a \in alts[n], f \in Choices(N \ {n}, alts)}

\* CaseInsensitiveDict(d) for a plain dict d over (section, key) pairs: keys of
\* d that fold to the same key overwrite each other in d's iteration order,
\* which Python leaves unspecified; the result is any of the possible ones
CIDFromPairs(d) ==
    LET N == {FoldPair(k) : k \in DOMAIN d}
        alts == [n \in N |-> {k \in DOMAIN d : FoldPair(k) = n}]
    IN {[n \in N |-> [key |-> w[n], value |-> d[w[n]]]] : w \in Choices(N, alts)}

\* CaseInsensitiveDict(d) for a plain dict d over strings
CIDFromStrings(d) ==
    LET N == {Lower(k) : k \in DOMAIN d}
        alts == [n \in N |-> {k \in DOMAIN d : Lower(k) = n}]
    IN {[n \in N |-> [key |-> w[n], value |-> d[w[n]]]] : w \in Choices(N, alts)}

(***************************************************************************)
(* ConfigFile (fsd2.core.config) and the directory it reads from.          *)
(* store maps the name of each file of the configuration root to its       *)
(* content: a parse style and the items of the file, keyed by the raw      *)
(* (header, key) pair; a SIMPLE file has no headers and its items stand    *)
(* under None.  A file that does not parse has the style CORRUPT.          *)
(***************************************************************************)
CORRUPT == "CORRUPT"

CorruptFile == [parsestyle |-> CORRUPT, items |-> <<>>]

\* ConfigFile(path): the parsed file, or a failure when the file is missing
\* or does not parse
ConfigFile(st, name) ==
    IF name \in DOMAIN st /\ st[name].parsestyle # CORRUPT
    THEN [tag |-> "return",
          value |-> [path |-> CM_PATH \o name,
                     parsestyle |-> st[name].parsestyle,
                     items |-> st[name].items]]
    ELSE [tag |-> "raise", type |-> "Exception"]

\* conf.headers: the raw section labels
Headers(conf) == {p[1] : p \in DOMAIN conf.items} \ {None}

\* conf[header]: the keys and values under one raw header
Section(conf, header) ==
    [k \in {p[2] : p \in {q \in DOMAIN conf.items : q[1] = header}} |->
        conf.items[<<header, k>>]]

\* conf.get((section, key), default)
ConfGet(conf, pair, default) ==
    IF pair \in DOMAIN conf.items THEN conf.items[pair] ELSE default

(***************************************************************************)
(* ConfigManager.get_configs: the Namespace Loader.                        *)
(***************************************************************************)
\* make_conf_path, as the name of the file in the configuration root
make_conf_name(namespace) == namespace \o PRM

make_conf_path(namespace) == CM_PATH \o make_conf_name(namespace)

\* the loop of get_configs over namespaces[i..], rtn_confs being loaded so far
RECURSIVE get_configs_from(_, _, _, _, _)
get_configs_from(st, namespaces, required, i, rtn_confs) ==
    IF i > Len(namespaces) THEN [tag |-> "return", value |-> rtn_confs]
    ELSE LET namespace == Upper(namespaces[i])
             conf == ConfigFile(st, make_conf_name(namespace))
         IN IF conf.tag = "return"
            THEN get_configs_from(st, namespaces, required, i + 1,
                    [n \in DOMAIN rtn_confs \cup {namespace} |->
                        IF n = namespace THEN conf.value ELSE rtn_confs[n]])
            ELSE IF required
                 THEN [tag |-> "raise", type |-> "ConfigNotFound",
                       namespace |-> namespace,
                       path |-> make_conf_path(namespace)]
                 ELSE get_configs_from(st, namespaces, required, i + 1, rtn_confs)

\* get_configs that skips a namespace that fails to load even when required
get_configs_lenient(st, namespaces, required) ==
    get_configs_from(st, namespaces, FALSE, 1, <<>>)

get_configs(st, namespaces, required) ==
    get_configs_from(st, namespaces, required, 1, <<>>)

(***************************************************************************)
(* ConfigManager.process_configs: the Config Stacker.                      *)
(***************************************************************************)
\* sorted(names): the names in ascending order
RECURSIVE Sorted(_)
Sorted(names) ==
    IF names = {} THEN <<>>
    ELSE LET least == CHOOSE n \in names : \A m \in names \ {n} : StrLess(n, m)
         IN <<least>> \o Sorted(names \ {least})

\* sorted(names, reverse=True)
RECURSIVE SortedDescending(_)
SortedDescending(names) ==
    IF names = {} THEN <<>>
    ELSE LET most == CHOOSE n \in names : \A m \in names \ {n} : StrLess(m, n)
         IN <<most>> \o SortedDescending(names \ {most})

\* the plain dict one source contributes: ('', key) for a SIMPLE file, the
\* (section, key) pairs verbatim otherwise
InterimDict(conf) ==
    IF conf.parsestyle = PARSE_SIMPLE
    THEN [p \in {<<(<<>>), q[2]>> : q \in DOMAIN conf.items} |->
            conf.items[<<None, p[2]>>]]
    ELSE conf.items

\* the loop over confkeys[i..]: every dictionary fullconf can end up as
RECURSIVE stack_from(_, _, _, _)
stack_from(confs_dict, confkeys, i, fullconf) ==
    IF i > Len(confkeys) THEN {fullconf}
    ELSE UNION {stack_from(confs_dict, confkeys, i + 1, CIDUpdate(fullconf, interim)) :
                    interim \in CIDFromPairs(InterimDict(confs_dict[confkeys[i]]))}

\* process_configs that stacks the namespaces in descending order
process_configs_descending(confs_dict) ==
    stack_from(confs_dict, SortedDescending(DOMAIN confs_dict), 1, EmptyDict)

\* the set of dictionaries process_configs can return (one, unless a source
\* holds keys that differ in letter case only)
process_configs(confs_dict) ==
    stack_from(confs_dict, Sorted(DOMAIN confs_dict), 1, EmptyDict)

(***************************************************************************)
(* ConfigManager.process_genconf: the GenConf Flattener.                   *)
(***************************************************************************)
QUALIFIER == <<":",":">>

\* the headers map of lines 167-179: for each base name the qualifiers kept,
\* '' for the unqualified header, under the lower-cased flow id
HeaderMap(conf_file, flow_id) ==
    LET hs == Headers(conf_file)
        kept(fk) == LET splithdr == Split(fk, QUALIFIER)
                        ns == Tail(splithdr)
                    IN \/ Len(ns) > 0 /\ Lower(ns[1]) = flow_id
                       \/ Len(ns) = 0
        K == {Split(fk, QUALIFIER)[1] : fk \in {h \in hs : kept(h)}}
    IN [k \in K |->
          {IF Len(Split(fk, QUALIFIER)) > 1 THEN Split(fk, QUALIFIER)[2] ELSE <<>> :
                fk \in {h \in hs : kept(h) /\ Split(h, QUALIFIER)[1] = k}}]

\* the plain dict of lines 183-200 when nset.pop() returns popped[k] for k:
\* the base fields of each name, updated with the fields of the popped
\* qualified header
FlatDict(conf_file, headers, popped) ==
    LET base(k) == IF <<>> \in headers[k] THEN Section(conf_file, k) ELSE <<>>
        ns_dict(k) == IF k \in DOMAIN popped
                      THEN Section(conf_file, k \o QUALIFIER \o popped[k])
                      ELSE <<>>
        fields(k) == ns_dict(k) @@ base(k)
        pairs == UNION {{<<k, sk>> : sk \in DOMAIN fields(k)} : k \in DOMAIN headers}
    IN [p \in pairs |-> fields(p[1])[p[2]]]

\* the set of dictionaries process_genconf can return: set.pop() takes an
\* arbitrary one of the qualifiers kept for a name
process_genconf(conf_file, flow_id) ==
    LET headers == HeaderMap(conf_file, Lower(flow_id))
        qualified == {k \in DOMAIN headers : headers[k] \ {<<>>} # {}}
        alts == [k \in qualified |-> headers[k] \ {<<>>}]
    IN UNION {CIDFromPairs(FlatDict(conf_file, headers, popped)) :
                popped \in Choices(qualified, alts)}

(***************************************************************************)
(* ConfigManager.get_config_by_flow: the Flow Resolver.                    *)
(***************************************************************************)
FLOW_SETUP == <<"f","l","o","w","_","s","e","t","u","p">>

FOR_FLOWS == <<"f","o","r","_","f","l","o","w","s">>

\* list_config_files(mask): the names in the directory that match the mask
list_config_files(st, mask) == {name \in DOMAIN st : FnMatch(name, mask)}

\* list_configs that ends at the first file that fails to parse, the files
\* being listed by name
list_configs_until_failure(st, files) ==
    {ConfigFile(st, f).value :
        f \in {g \in files :
                 \A h \in files :
                    (h = g \/ StrLess(h, g)) => ConfigFile(st, h).tag = "return"}}

\* list_configs(files): the files that parse; the others are logged and skipped
list_configs(st, files) ==
    {ConfigFile(st, f).value : f \in {g \in files : ConfigFile(st, g).tag = "return"}}

\* the elements of a list, as a set
Range(seq) == {seq[i] : i \in 1..Len(seq)}

\* genconf_filter of line 235, flow_id being upper-cased already
genconf_filter(cfg, flow_id) ==
    flow_id \in {Strip(Upper(flow_name)) :
                    flow_name \in Range(Split(ConfGet(cfg, <<FLOW_SETUP, FOR_FLOWS>>, <<>>),
                                              <<",">>))}

\* the generic-file search of lines 234-250
genconf_search(st, flow_id) ==
    LET all_genconf == {cfg \in list_configs(st, list_config_files(st, CM_GEN_MASK)) :
                            genconf_filter(cfg, flow_id)}
    IN IF Cardinality(all_genconf) = 1
       THEN [tag |-> "return", value |-> CHOOSE cfg \in all_genconf : TRUE]
       ELSE IF all_genconf = {}
       THEN [tag |-> "raise", type |-> "ConfigNotFound", flow |-> flow_id]
       ELSE [tag |-> "raise", type |-> "ConfigError", flow |-> flow_id,
             paths |-> {cfg.path : cfg \in all_genconf}]

\* get_config_by_flow that searches the generic files first
get_config_by_flow_generic_first(st, flow) ==
    LET flow_id == Upper(flow)
        namespace == Replace(Replace(CM_FLOW_MASK, <<"*">>, flow_id), PRM, <<>>)
        conf_file == get_configs(st, <<namespace>>, FALSE).value
        found == genconf_search(st, flow_id)
    IN IF found.tag = "return" \/ DOMAIN conf_file = {}
       THEN found
       ELSE [tag |-> "return", value |-> conf_file[namespace]]

\* get_config_by_flow that returns one of several matching generic files
get_config_by_flow_first_match(st, flow) ==
    LET flow_id == Upper(flow)
        namespace == Replace(Replace(CM_FLOW_MASK, <<"*">>, flow_id), PRM, <<>>)
        conf_file == get_configs(st, <<namespace>>, FALSE).value
        found == genconf_search(st, flow_id)
    IN IF DOMAIN conf_file # {}
       THEN [tag |-> "return", value |-> conf_file[namespace]]
       ELSE IF found.tag = "raise" /\ found.type = "ConfigError"
       THEN [tag |-> "return",
             value |-> CHOOSE cfg \in list_configs(st, list_config_files(st, CM_GEN_MASK)) :
                            genconf_filter(cfg, flow_id)]
       ELSE found

get_config_by_flow(st, flow) ==
    LET flow_id == Upper(flow)
        namespace == Replace(Replace(CM_FLOW_MASK, <<"*">>, flow_id), PRM, <<>>)
        conf_file == get_configs(st, <<namespace>>, FALSE).value
    IN IF DOMAIN conf_file # {}
       THEN [tag |-> "return", value |-> conf_file[namespace]]
       ELSE genconf_search(st, flow_id)

(***************************************************************************)
(* ConfigManager.__init__ and the read interface.                          *)
(***************************************************************************)
NoConf == [tag |-> "none"]

\* self.confs.update(flow_dict) the wrong way round: the stack on top
layer_flow_under(base, flow_dict) == CIDUpdate(flow_dict, base)

\* self.confs.update(flow_dict) of line 136
layer_flow(base, flow_dict) == CIDUpdate(base, flow_dict)

\* a constructor call that raised
Failed(args, error) == [tag |-> "failed", args |-> args, error |-> error]

\* the instances __init__ can leave for the arguments args = [namespaces,
\* flow, filename].  base, flow_conf and flow_dict record the values of the
\* locals of __init__, confs and _configfiles are the attributes.
ConstructOutcomes(st, args) ==
    LET loaded == get_configs(st, args.namespaces, TRUE)
        req_flow == IF args.flow # None /\ args.flow # <<>>
                    THEN [tag |-> "return", value |-> args.flow]
                    ELSE get_flow_id(args.filename)
    IN IF loaded.tag = "raise" THEN {Failed(args, loaded)}
       ELSE IF req_flow.tag = "raise" THEN {Failed(args, req_flow)}
       ELSE IF req_flow.value = None
       THEN {[tag |-> "ok", args |-> args, _configfiles |-> loaded.value,
              base |-> base, flow_conf |-> NoConf, flow_dict |-> EmptyDict,
              confs |-> base] : base \in process_configs(loaded.value)}
       ELSE LET flow_conf == get_config_by_flow(st, req_flow.value)
            IN IF flow_conf.tag = "raise" THEN {Failed(args, flow_conf)}
               ELSE {[tag |-> "ok", args |-> args, _configfiles |-> loaded.value,
                      base |-> base, flow_conf |-> flow_conf.value,
                      flow_dict |-> flow_dict,
                      confs |-> layer_flow(base, flow_dict)] :
                        base \in process_configs(loaded.value),
                        flow_dict \in process_genconf(flow_conf.value, req_flow.value)}

KeyError(key) == [tag |-> "raise", type |-> "KeyError", key |-> key]

\* self.confs.__getitem__(key) for a (section, key) pair
CIDGetItem(confs, key) ==
    IF FoldPair(key) \in DOMAIN confs
    THEN [tag |-> "return", value |-> confs[FoldPair(key)].value]
    ELSE KeyError(key)

\* __getitem__ with one string: the results it can give (lines 300-306)
getitem_section(confs, key) ==
    LET picked == {p \in CIDKeys(confs) : p[1] = Lower(key)}
        d == [w \in {p[2] : p \in picked} |->
                CIDGetItem(confs, CHOOSE p \in picked : p[2] = w).value]
    IN IF picked # {}
       THEN {[tag |-> "return", value |-> rtndict] : rtndict \in CIDFromStrings(d)}
       ELSE {KeyError(key)}

\* __getitem__ with a pair that looks the pair up the other way round
getitem_pair_swapped(confs, key) == CIDGetItem(confs, <<key[2], key[1]>>)

\* __getitem__ with a (section, key) pair (lines 307-310)
getitem_pair(confs, key) == CIDGetItem(confs, <<key[1], key[2]>>)

\* __iter__: the pairs iteration yields
iter_keys(confs) == CIDKeys(confs)

\* __len__
len_confs(confs) == Cardinality(DOMAIN confs)

\* sections: the sorted distinct first components of the pairs (line 321)
sections(confs) == Sorted({x[1] : x \in iter_keys(confs)})

AttributeError(name) == [tag |-> "raise", type |-> "AttributeError", name |-> name]

\* files: c ranges over the dict _configfiles, that is over its keys, the
\* namespace strings, and a string has no attribute path (lines 326-327)
files(_configfiles) ==
    IF \E c \in DOMAIN _configfiles : TRUE
    THEN AttributeError("path")
    ELSE [tag |-> "return", value |-> <<>>]

(***************************************************************************)
(* resolve_key: the Shortcut Key Resolver.                                 *)
(***************************************************************************)
\* list.reverse()
Reverse(l) == [i \in 1..Len(l) |-> l[Len(l) + 1 - i]]

\* list.pop() on an empty list, or an index past the end of a list
IndexError == [tag |-> "raise", type |-> "IndexError"]

ValueError == [tag |-> "raise", type |-> "ValueError"]

KW_CM == <<"c","m">>

KW_FLOW == <<"f","l","o","w">>

KW_FILENAME == <<"f","i","l","e","n","a","m","e">>

\* lines 78-99 of resolve_key: the constructor call the key asks for and
\* what is left of the reversed key, or the error raised before that
shortcut_request(cm_key_str) ==
    LET reversed == Reverse(Split(Lower(cm_key_str), <<":">>))
        cm_prefix == reversed[Len(reversed)]
        after_prefix == UpTo(reversed, Len(reversed) - 1)
    IN IF cm_prefix # KW_CM THEN ValueError
       ELSE IF Len(after_prefix) = 0 THEN IndexError
       ELSE LET cm_kw == after_prefix[Len(after_prefix)]
                after_kw == UpTo(after_prefix, Len(after_prefix) - 1)
            IN IF cm_kw \in {KW_FLOW, KW_FILENAME}
               THEN IF Len(after_kw) = 0 THEN IndexError
                    ELSE LET value == after_kw[Len(after_kw)]
                             cm_key == UpTo(after_kw, Len(after_kw) - 1)
                         IN IF cm_kw = KW_FLOW
                            THEN [tag |-> "request", cm_key |-> cm_key,
                                  args |-> [namespaces |-> <<>>,
                                            flow |-> Upper(value),
                                            filename |-> None]]
                            ELSE [tag |-> "request", cm_key |-> cm_key,
                                  args |-> [namespaces |-> <<>>, flow |-> None,
                                            filename |-> value]]
               ELSE [tag |-> "request", cm_key |-> after_kw,
                     args |-> [namespaces |-> <<cm_kw>>, flow |-> None,
                               filename |-> None]]

\* resolve_key that looks up cm_obj[cm_key[0], cm_key[1]]
resolve_key_key_first(st, cm_key_str) ==
    LET req == shortcut_request(cm_key_str)
    IN IF req.tag = "raise" THEN {req}
       ELSE {IF cm_obj.tag = "failed" THEN cm_obj.error
             ELSE IF Len(req.cm_key) < 2 THEN IndexError
             ELSE getitem_pair(cm_obj.confs, <<req.cm_key[1], req.cm_key[2]>>) :
                cm_obj \in ConstructOutcomes(st, req.args)}

\* resolve_key(cm_key_str): the results it can give, one for each instance
\* the constructor can leave (lines 78-101)
resolve_key(st, cm_key_str) ==
    LET req == shortcut_request(cm_key_str)
    IN IF req.tag = "raise" THEN {req}
       ELSE {IF cm_obj.tag = "failed" THEN cm_obj.error
             ELSE IF Len(req.cm_key) < 2 THEN IndexError
             ELSE getitem_pair(cm_obj.confs, <<req.cm_key[2], req.cm_key[1]>>) :
                cm_obj \in ConstructOutcomes(st, req.args)}

(***************************************************************************)
(* Filenames handed to get_flow_id: up to MaxTokens tokens.                *)
(***************************************************************************)
NameTokens ==
    { <<"a">>, <<"B">>, <<"_">>, <<".">>, <<" ">>, <<"/">>,
      <<"2","3","0","5","0","1">>, <<"1","2">>, <<"W","e">>, <<"d">> }

RECURSIVE TokenStrings(_)
TokenStrings(n) ==
    IF n = 0 THEN {<<>>}
    ELSE LET shorter == TokenStrings(n - 1)
         IN shorter \cup {s \o t : s \in shorter, t \in NameTokens}

Filenames == TokenStrings(MaxTokens)

\* the call record: the arguments drawn for a call, then the call made
InitFlowId ==
    /\ store = <<>>
    /\ cm = NoCM
    /\ cm2 = NoCM
    /\ shell = NoShell
    /\ \E fn \in Filenames \cup {None} :
         ret = [op |-> "args", arg |-> fn]

CallGetFlowId ==
    /\ ret.op = "args"
    /\ ret' = [op |-> "get_flow_id", arg |-> ret.arg, res |-> get_flow_id(ret.arg)]
    /\ UNCHANGED <<store, cm, cm2, shell>>

NextFlowId == CallGetFlowId

SpecFlowId == InitFlowId /\ [][NextFlowId]_vars


(***************************************************************************)
(* The files of the model.                                                 *)
(***************************************************************************)
FullFile(items) == [parsestyle |-> PARSE_FULL, items |-> items]

SimpleFile(items) == [parsestyle |-> PARSE_SIMPLE, items |-> items]

S_QF == <<"s",":",":","f">>

S_QFUP == <<"s",":",":","F">>

S_QG == <<"s",":",":","g">>

\* contents of a namespace file
NsFile1 == FullFile((<< <<"s">>, <<"y">> >> :> <<"1">>) @@ (<< <<"t">>, <<"z">> >> :> <<"1">>))

NsFile2 == FullFile((<< <<"S">>, <<"Y">> >> :> <<"2">>) @@ (<< S_QF, <<"y">> >> :> <<"3">>))

NsFile3 == SimpleFile((<< None, <<"y">> >> :> <<"3">>) @@ (<< None, <<"Z">> >> :> <<"1">>))

NsFile4 == FullFile((<< <<"s">>, <<"y">> >> :> <<"2">>) @@ (<< <<"s">>, <<"z">> >> :> <<"2">>))

NsContents == {NsFile1, NsFile2, NsFile3, NsFile4, CorruptFile}

\* content of the dedicated file of flow F
FlowFile1 ==
    FullFile((<< <<"s">>, <<"y">> >> :> <<"4">>) @@ (<< S_QF, <<"z">> >> :> <<"5">>)
             @@ (<< S_QG, <<"y">> >> :> <<"9">>))

\* a generic file: its for_flows list and the rest of its items
GenFile(for_flows, items) ==
    FullFile((<< FLOW_SETUP, FOR_FLOWS >> :> for_flows) @@ items)

GenFile1 ==
    GenFile(<<"f">>,
            (<< <<"s">>, <<"y">> >> :> <<"6">>) @@ (<< S_QF, <<"y">> >> :> <<"7">>)
            @@ (<< S_QFUP, <<"z">> >> :> <<"8">>))

GenFile2 ==
    GenFile(<<" ","F"," ",",","g">>,
            (<< <<"s">>, <<"y">> >> :> <<"6">>) @@ (<< S_QG, <<"y">> >> :> <<"9">>)
            @@ (<< <<"t">>, <<"z">> >> :> <<"6">>))

GenFile3 == GenFile(<<"g">>, (<< <<"S">>, <<"y">> >> :> <<"6">>))

GenFile4 == GenFile(<<"g",",","F">>, (<< <<"s">>, <<"Y">> >> :> <<"7">>))

NameA == <<"A",".","p","r","m">>

NameB == <<"B",".","p","r","m">>

NameFlowF == <<"C","M","_","F","S","D","_","F","L","O","W","_","F",".","p","r","m">>

NameGen1 ==
    <<"C","M","_","F","S","D","_","F","L","O","W","_","G","E","N","_","1",".","p","r","m">>

NameGen2 ==
    <<"C","M","_","F","S","D","_","F","L","O","W","_","G","E","N","_","2",".","p","r","m">>

\* a directory: each name with one of its contents, or without the file
Absent == [parsestyle |-> "ABSENT", items |-> <<>>]

Directory(options) ==
    {[n \in {m \in DOMAIN f : f[m] # Absent} |-> f[n]] :
        f \in [DOMAIN options -> {Absent} \cup UNION {options[n] : n \in DOMAIN options}]
              \cap {g \in [DOMAIN options -> {Absent} \cup UNION {options[n] : n \in DOMAIN options}] :
                        \A n \in DOMAIN options : g[n] \in options[n] \cup {Absent}}}

\* directories that vary the namespace files, without flow files
NsStores ==
    Directory((NameA :> NsContents) @@ (NameB :> NsContents))

\* directories that vary the flow files
FlowStores ==
    Directory((NameA :> {NsFile1, NsFile2})
              @@ (NameFlowF :> {FlowFile1, CorruptFile})
              @@ (NameGen1 :> {GenFile1, GenFile2, GenFile3, CorruptFile})
              @@ (NameGen2 :> {GenFile2, GenFile4}))

Stores == NsStores \cup FlowStores

\* the namespace names callers pass
NsArgs == {<<"A">>, <<"b">>}

RECURSIVE SeqsUpTo(_, _)
SeqsUpTo(S, n) ==
    IF n = 0 THEN {<<>>}
    ELSE LET shorter == SeqsUpTo(S, n - 1)
         IN shorter \cup {Append(q, x) : q \in shorter, x \in S}

NsLists == SeqsUpTo(NsArgs, MaxReq)

FlowArgs == {None, <<"f">>, <<"G">>}

FilenameArgs == {None, <<"f",".","x">>, <<"_">>}

CtorArgs == [namespaces : NsLists, flow : FlowArgs, filename : FilenameArgs]

ReadSections == {<<"s">>, <<"S">>, <<"t">>, <<>>, <<"x">>}

ReadKeys == {<<"y">>, <<"Y">>, <<"z">>}

(***************************************************************************)
(* The ConfigManager: construction, then reads.                            *)
(***************************************************************************)
Init ==
    /\ store \in Stores
    /\ cm = NoCM
    /\ cm2 = NoCM
    /\ shell = NoShell
    /\ ret = [op |-> "none"]

\* cm = ConfigManager(*namespaces, flow=flow, filename=filename)
Construct ==
    /\ cm = NoCM
    /\ \E args \in CtorArgs : cm' \in ConstructOutcomes(store, args)
    /\ UNCHANGED <<store, cm2, ret, shell>>

\* a second instance, constructed with the arguments of the first
Reconstruct ==
    /\ cm # NoCM
    /\ cm2 = NoCM
    /\ cm2' \in ConstructOutcomes(store, cm.args)
    /\ UNCHANGED <<store, cm, ret, shell>>

\* cm[section] that takes the pairs it returns out of self.confs
GetItemSection_consuming ==
    /\ cm.tag = "ok"
    /\ \E s \in ReadSections :
         \E res \in getitem_section(cm.confs, s) :
            /\ ret' = [op |-> "getitem_section", arg |-> s, res |-> res]
            /\ cm' = [cm EXCEPT !.confs =
                        [n \in {m \in DOMAIN cm.confs : m[1] # Lower(s)} |-> cm.confs[n]]]
    /\ UNCHANGED <<store, cm2, shell>>

\* cm[section]
GetItemSection ==
    /\ cm.tag = "ok"
    /\ \E s \in ReadSections :
         \E res \in getitem_section(cm.confs, s) :
            ret' = [op |-> "getitem_section", arg |-> s, res |-> res]
    /\ UNCHANGED <<store, cm, cm2, shell>>

\* cm[(section, key)]
GetItemPair ==
    /\ cm.tag = "ok"
    /\ \E s \in ReadSections, k \in ReadKeys :
         ret' = [op |-> "getitem_pair", arg |-> <<s, k>>,
                 res |-> getitem_pair(cm.confs, <<s, k>>)]
    /\ UNCHANGED <<store, cm, cm2, shell>>

\* list(cm): the pairs yielded, each with what cm[pair] gives for it
Iterate ==
    /\ cm.tag = "ok"
    /\ ret' = [op |-> "iter", arg |-> <<>>,
               res |-> [p \in iter_keys(cm.confs) |-> getitem_pair(cm.confs, p)]]
    /\ UNCHANGED <<store, cm, cm2, shell>>

\* len(cm)
Length ==
    /\ cm.tag = "ok"
    /\ ret' = [op |-> "len", arg |-> <<>>, res |-> len_confs(cm.confs)]
    /\ UNCHANGED <<store, cm, cm2, shell>>

\* cm.sections
Sections ==
    /\ cm.tag = "ok"
    /\ ret' = [op |-> "sections", arg |-> <<>>, res |-> sections(cm.confs)]
    /\ UNCHANGED <<store, cm, cm2, shell>>

\* cm.files
Files ==
    /\ cm.tag = "ok"
    /\ ret' = [op |-> "files", arg |-> <<>>, res |-> files(cm._configfiles)]
    /\ UNCHANGED <<store, cm, cm2, shell>>

Next ==
    \/ Construct
    \/ GetItemSection
    \/ GetItemPair
    \/ Iterate
    \/ Length
    \/ Sections
    \/ Files

Spec == Init /\ [][Next]_vars

\* two constructions with the same arguments against the same directory
NextTwice == Construct \/ Reconstruct

SpecTwice == Init /\ [][NextTwice]_vars

(***************************************************************************)
(* get_config_by_flow called on its own.                                   *)
(***************************************************************************)
ResolveFlows == {<<"f">>, <<"F">>, <<"g">>, <<"h">>, <<"g","e","n","_","1">>}

InitResolve ==
    /\ store \in FlowStores
    /\ cm = NoCM
    /\ cm2 = NoCM
    /\ shell = NoShell
    /\ \E flow \in ResolveFlows : ret = [op |-> "args", arg |-> flow]

CallGetConfigByFlow ==
    /\ ret.op = "args"
    /\ ret' = [op |-> "get_config_by_flow", arg |-> ret.arg,
               res |-> get_config_by_flow(store, ret.arg)]
    /\ UNCHANGED <<store, cm, cm2, shell>>

NextResolve == CallGetConfigByFlow

SpecResolve == InitResolve /\ [][NextResolve]_vars

(***************************************************************************)
(* get_configs called on its own.                                          *)
(***************************************************************************)
InitLoader ==
    /\ store \in NsStores
    /\ cm = NoCM
    /\ cm2 = NoCM
    /\ shell = NoShell
    /\ \E namespaces \in NsLists, required \in BOOLEAN :
         ret = [op |-> "args", arg |-> [namespaces |-> namespaces, required |-> required]]

CallGetConfigs ==
    /\ ret.op = "args"
    /\ ret' = [op |-> "get_configs", arg |-> ret.arg,
               res |-> get_configs(store, ret.arg.namespaces, ret.arg.required)]
    /\ UNCHANGED <<store, cm, cm2, shell>>

NextLoader == CallGetConfigs

SpecLoader == InitLoader /\ [][NextLoader]_vars

(***************************************************************************)
(* resolve_key called on shortcut keys.                                    *)
(***************************************************************************)
\* cm:flow:<flowid>, cm:filename:<name> and cm:<namespace>, in several casings
ShortcutHeads ==
    {<<p, KW_FLOW, v>> :
        p \in {KW_CM, <<"C","m">>}, v \in {<<"f">>, <<"F">>, <<"g">>, <<"h">>, <<>>}}
    \cup {<<p, KW_FILENAME, v>> :
        p \in {KW_CM, <<"C","m">>},
        v \in {<<"f",".","x">>, <<"F","_","D","2","3","0","5","0","1">>, <<"_">>, <<"G">>}}
    \cup {<<p, n>> : p \in {KW_CM, <<"C","m">>}, n \in {<<"A">>, <<"a">>, <<"b">>}}
    \cup {<<KW_CM, <<"F","l","o","w">>, <<"f">>>>, <<KW_CM, <<"F","i","l","e","N","a","m","e">>, <<"F">>>>}

ShortcutTails ==
    {<<sec, k>> : sec \in {<<"s">>, <<"S">>, <<"t">>}, k \in {<<"y">>, <<"Z">>}}

\* keys of the grammar, a key with a component too many, and keys that are
\* too short or do not start with cm
ShortcutKeys ==
    {Join(<<":">>, h \o t) : h \in ShortcutHeads, t \in ShortcutTails}
    \cup {Join(<<":">>, <<KW_CM, KW_FLOW, <<"f">>, <<"x">>, <<"s">>, <<"y">>>>),
          Join(<<":">>, <<KW_CM, KW_FLOW, <<"f">>, <<"y">>>>),
          Join(<<":">>, <<KW_CM, <<"A">>, <<"y">>>>),
          Join(<<":">>, <<KW_CM, KW_FLOW>>),
          KW_CM,
          Join(<<":">>, <<<<"x","x">>, <<"A">>, <<"s">>, <<"y">>>>)}

InitShortcut ==
    /\ store \in FlowStores
    /\ cm = NoCM
    /\ cm2 = NoCM
    /\ shell = NoShell
    /\ \E k \in ShortcutKeys : ret = [op |-> "args", arg |-> k]

CallResolveKey ==
    /\ ret.op = "args"
    /\ \E res \in resolve_key(store, ret.arg) :
         ret' = [op |-> "resolve_key", arg |-> ret.arg, res |-> res]
    /\ UNCHANGED <<store, cm, cm2, shell>>

NextShortcut == CallResolveKey

SpecShortcut == InitShortcut /\ [][NextShortcut]_vars

(***************************************************************************)
(* ShellCommand (src/shell.py): execute, its worker thread and the child.  *)
(***************************************************************************)
\* the longest timeout passed, in seconds
MaxTimeout == 2

\* timeout=...: <<>> stands for None, <<t>> for t seconds
TimeoutArgs == {<<>>} \cup {<<t>> : t \in 0..MaxTimeout}

\* executable=...: None, or the name of a program
ExecutableArgs == {None, <<"l","s">>}

ShellKwargs ==
    [timeout : TimeoutArgs, executable : ExecutableArgs, ignore_rtncode : BOOLEAN]

\* the Popen object open_io stores in self._process
Popen == <<"Popen">>

\* ShellCommand(**kwargs) with execute() entered, its thread not yet started:
\* main and worker are the positions of the two threads, child the state of
\* the child process, elapsed the seconds spent in join(timeout), is_alive
\* what cmd_thread.is_alive() answered, result how execute() ended
ShellCommand(kwargs) ==
    [tag |-> "ok",
     executable |-> kwargs.executable,
     command_timeout |-> IF kwargs.timeout # <<>> /\ kwargs.timeout[1] # 0
                         THEN <<kwargs.timeout[1]>>
                         ELSE kwargs.timeout,
     ignore_rtncode |-> kwargs.ignore_rtncode,
     _process |-> None,
     returncode |-> <<>>,
     child |-> "none",
     exception_queue |-> <<>>,
     main |-> "start",
     worker |-> "unstarted",
     elapsed |-> 0,
     is_alive |-> "unasked",
     result |-> [tag |-> "none"]]

Raised(type) == [tag |-> "raise", type |-> type]

InitShell ==
    /\ store = <<>>
    /\ cm = NoCM
    /\ cm2 = NoCM
    /\ ret = [op |-> "none"]
    /\ \E kwargs \in ShellKwargs : shell = ShellCommand(kwargs)

\* cmd_thread.start() (line 241)
StartThread ==
    /\ shell.main = "start"
    /\ shell' = [shell EXCEPT !.main = "join", !.worker = "open_io"]
    /\ UNCHANGED <<store, cm, cm2, ret>>

\* a second passes while the caller waits in cmd_thread.join(timeout)
Tick ==
    /\ shell.main = "join"
    /\ shell.command_timeout # <<>>
    /\ shell.elapsed < shell.command_timeout[1]
    /\ shell' = [shell EXCEPT !.elapsed = shell.elapsed + 1]
    /\ UNCHANGED <<store, cm, cm2, ret>>

\* cmd_thread.join(self.command_timeout) returns (line 244): the worker has
\* finished, or the timeout has elapsed
JoinReturns ==
    /\ shell.main = "join"
    /\ \/ shell.worker = "finished"
       \/ shell.command_timeout # <<>> /\ shell.elapsed >= shell.command_timeout[1]
    /\ shell' = [shell EXCEPT !.main = "is_alive"]
    /\ UNCHANGED <<store, cm, cm2, ret>>

\* if cmd_thread.is_alive(): (line 247)
IsAlive ==
    /\ shell.main = "is_alive"
    /\ shell' = IF shell.worker # "finished"
                THEN [shell EXCEPT !.is_alive = "alive", !.main = "terminate"]
                ELSE [shell EXCEPT !.is_alive = "dead", !.main = "check_queue"]
    /\ UNCHANGED <<store, cm, cm2, ret>>

\* self._process.terminate() (line 248): None has no terminate; os.kill on a
\* child that was waited for already fails; a running child gets SIGTERM
Terminate ==
    /\ shell.main = "terminate"
    /\ shell' = IF shell._process = None
                THEN [shell EXCEPT !.result = Raised("AttributeError"), !.main = "done"]
                ELSE IF shell.child = "reaped"
                THEN [shell EXCEPT !.result = Raised("OSError"), !.main = "done"]
                ELSE [shell EXCEPT !.main = "join_again",
                                   !.child = IF shell.child = "running"
                                             THEN "terminated" ELSE shell.child]
    /\ UNCHANGED <<store, cm, cm2, ret>>

\* cmd_thread.join() returns and CommandTimeoutException is raised
\* (lines 249-253)
JoinAgain ==
    /\ shell.main = "join_again"
    /\ shell.worker = "finished"
    /\ shell' = [shell EXCEPT !.result = Raised("CommandTimeoutException"),
                              !.main = "done"]
    /\ UNCHANGED <<store, cm, cm2, ret>>

\* the rest of execute once the worker is seen finished (lines 256-279): the
\* worker's exception is raised again, or the return code decides
CheckQueue ==
    /\ shell.main = "check_queue"
    /\ shell' =
         IF shell.exception_queue # <<>>
         THEN [shell EXCEPT !.result = Raised(Head(shell.exception_queue)),
                            !.exception_queue = Tail(shell.exception_queue),
                            !.main = "done"]
         ELSE IF shell._process = None
         THEN [shell EXCEPT !.result = Raised("AttributeError"), !.main = "done"]
         ELSE IF shell.returncode # <<0>> /\ ~shell.ignore_rtncode
         THEN [shell EXCEPT !.result = Raised("ShellCommandException"), !.main = "done"]
         ELSE [shell EXCEPT !.result = [tag |-> "return"], !.main = "done"]
    /\ UNCHANGED <<store, cm, cm2, ret>>

\* thread_runner: self.open_io(...) (line 229, open_io lines 122-142): an
\* executable that is no string raises ValueError, Popen can raise OSError,
\* else the child runs and self._process is set
WorkerOpenIO ==
    /\ shell.tag = "ok"
    /\ shell.worker = "open_io"
    /\ \/ /\ shell.executable = None
          /\ shell' = [shell EXCEPT !.exception_queue = Append(@, "ValueError"),
                                    !.worker = "finished"]
       \/ /\ shell.executable # None
          /\ \/ shell' = [shell EXCEPT !.exception_queue = Append(@, "OSError"),
                                       !.worker = "finished"]
             \/ shell' = [shell EXCEPT !._process = Popen, !.child = "running",
                                       !.worker = "communicate"]
    /\ UNCHANGED <<store, cm, cm2, ret>>

\* the child process ends by itself, with a zero or a non-zero status
ChildExits ==
    /\ shell.tag = "ok"
    /\ shell.child = "running"
    /\ \E status \in {0, 1} :
         shell' = [shell EXCEPT !.child = "exited", !.returncode = <<status>>]
    /\ UNCHANGED <<store, cm, cm2, ret>>

\* thread_runner: self._process.communicate() returns (line 230) once the
\* child has ended or was terminated; the child is waited for
WorkerCommunicate ==
    /\ shell.tag = "ok"
    /\ shell.worker = "communicate"
    /\ shell.child \in {"exited", "terminated"}
    /\ shell' = [shell EXCEPT !.child = "reaped",
                              !.returncode = IF shell.child = "terminated"
                                             THEN <<-15>> ELSE @,
                              !.worker = "decode"]
    /\ UNCHANGED <<store, cm, cm2, ret>>

\* thread_runner: output.decode(self.encoding) (line 231) and the end of the
\* thread; the bytes may not decode
WorkerDecode ==
    /\ shell.tag = "ok"
    /\ shell.worker = "decode"
    /\ \/ shell' = [shell EXCEPT !.worker = "finished"]
       \/ shell' = [shell EXCEPT !.exception_queue = Append(@, "UnicodeDecodeError"),
                                 !.worker = "finished"]
    /\ UNCHANGED <<store, cm, cm2, ret>>

NextShell ==
    \/ StartThread
    \/ Tick
    \/ JoinReturns
    \/ IsAlive
    \/ Terminate
    \/ JoinAgain
    \/ CheckQueue
    \/ WorkerOpenIO
    \/ ChildExits
    \/ WorkerCommunicate
    \/ WorkerDecode

SpecShell == InitShell /\ [][NextShell]_vars

(***************************************************************************)
(* Properties.                                                             *)
(***************************************************************************)
\* a file of the directory that parses
Parses(name) ==
    name \in DOMAIN store /\ store[name].parsestyle \in {PARSE_SIMPLE, PARSE_FULL}

\* the (section, key) pair a raw item of a source stands for in the stack
StackedPair(q) == <<IF q[1] = None THEN <<>> ELSE q[1], q[2]>>

\* the folded pairs a source defines, and the values it gives one of them
PairsOf(conf) == {FoldPair(StackedPair(q)) : q \in DOMAIN conf.items}

ValuesOf(conf, n) ==
    {conf.items[q] : q \in {r \in DOMAIN conf.items : FoldPair(StackedPair(r)) = n}}

\* C1: when the namespaces A and B loaded for an instance both define a
\* (section, key), compared case-insensitively, and B sorts after A (and no
\* namespace after B defines it), the stacked value is B's, in whatever order
\* the namespaces were named; stacking raises nothing.
C1_StackingPrecedence ==
    cm.tag = "ok" =>
        \A A \in DOMAIN cm._configfiles, B \in DOMAIN cm._configfiles :
            \A n \in PairsOf(cm._configfiles[A]) \cap PairsOf(cm._configfiles[B]) :
                (/\ StrLess(A, B)
                 /\ \A C \in DOMAIN cm._configfiles :
                        StrLess(B, C) => n \notin PairsOf(cm._configfiles[C]))
                => /\ n \in DOMAIN cm.base
                   /\ cm.base[n].value \in ValuesOf(cm._configfiles[B], n)

C1_Witness ==
    /\ cm.tag = "ok"
    /\ cm.args.namespaces = << <<"b">>, <<"A">> >>
    /\ \E n \in PairsOf(cm._configfiles[<<"A">>]) \cap PairsOf(cm._configfiles[<<"B">>]) :
          /\ ValuesOf(cm._configfiles[<<"A">>], n) # ValuesOf(cm._configfiles[<<"B">>], n)
          /\ cm.base[n].value \in ValuesOf(cm._configfiles[<<"B">>], n)

FlowPrefix == <<"C","M","_","F","S","D","_","F","L","O","W","_">>

GenPrefix == FlowPrefix \o <<"G","E","N","_">>

DedicatedName(flow) == FlowPrefix \o Upper(flow) \o PRM

\* the for_flows list of a file names the flow, case-insensitively and trimmed
ListsFlow(content, flow) ==
    /\ << FLOW_SETUP, FOR_FLOWS >> \in DOMAIN content.items
    /\ \E e \in Range(Split(content.items[<< FLOW_SETUP, FOR_FLOWS >>], <<",">>)) :
          Lower(Strip(e)) = Lower(flow)

\* the generic files that parse and list the flow
MatchingGeneric(flow) ==
    {name \in DOMAIN store :
        /\ StartsWith(name, GenPrefix)
        /\ EndsWith(name, PRM)
        /\ Parses(name)
        /\ ListsFlow(store[name], flow)}

\* the result is the source parsed from the file called name
IsSource(res, name) ==
    /\ res.tag = "return"
    /\ res.value.path = CM_PATH \o name
    /\ res.value.items = store[name].items

\* C2: when no dedicated file is found for the flow, get_config_by_flow
\* returns the one generic file that lists the flow, fails with ConfigNotFound
\* when none does, and fails with a ConfigError naming the path of every
\* matching file when several do.
C2_GenericFallback ==
    (ret.op = "get_config_by_flow" /\ ~Parses(DedicatedName(ret.arg))) =>
        LET M == MatchingGeneric(ret.arg)
        IN /\ Cardinality(M) = 1 => \E name \in M : IsSource(ret.res, name)
           /\ M = {} => ret.res.tag = "raise" /\ ret.res.type = "ConfigNotFound"
           /\ Cardinality(M) > 1 =>
                /\ ret.res.tag = "raise"
                /\ ret.res.type = "ConfigError"
                /\ ret.res.paths = {CM_PATH \o name : name \in M}

C2_Witness ==
    /\ ret.op = "get_config_by_flow"
    /\ ~Parses(DedicatedName(ret.arg))
    /\ Cardinality(MatchingGeneric(ret.arg)) = 2
    /\ ret.res.tag = "raise"
    /\ Cardinality(ret.res.paths) = 2

\* C3 as stated: whenever the dedicated file of the flow exists,
\* get_config_by_flow returns it.
C3_DedicatedExists ==
    (ret.op = "get_config_by_flow" /\ DedicatedName(ret.arg) \in DOMAIN store) =>
        /\ ret.res.tag = "return"
        /\ ret.res.value.path = CM_PATH \o DedicatedName(ret.arg)

\* C3, amended: whenever the dedicated file of the flow exists and parses,
\* get_config_by_flow returns it, whatever generic files list the flow.
C3_DedicatedPrecedence ==
    (ret.op = "get_config_by_flow" /\ Parses(DedicatedName(ret.arg))) =>
        IsSource(ret.res, DedicatedName(ret.arg))

C3_Witness ==
    /\ ret.op = "get_config_by_flow"
    /\ Parses(DedicatedName(ret.arg))
    /\ Cardinality(MatchingGeneric(ret.arg)) = 2
    /\ IsSource(ret.res, DedicatedName(ret.arg))

\* the headers of a source that qualify the section k with the flow
QualifiedFor(conf, k, flow) ==
    {h \in Headers(conf) :
        /\ Len(Split(h, QUALIFIER)) > 1
        /\ Split(h, QUALIFIER)[1] = k
        /\ Lower(Split(h, QUALIFIER)[2]) = Lower(flow)}

\* the flow id the constructor resolved
ResolvedFlow(args) ==
    IF args.flow # None /\ args.flow # <<>> THEN args.flow
    ELSE get_flow_id(args.filename).value

\* C4: the flattened mapping gives, for every section and key, the value of
\* the section qualified with the flow when that section defines the key,
\* otherwise the value of the unqualified section; nothing else is in it and
\* no section name in it carries a '::' qualifier.
C4_Flattening ==
    (cm.tag = "ok" /\ cm.flow_conf # NoConf) =>
        LET conf == cm.flow_conf
            flow == ResolvedFlow(cm.args)
            bases == {Split(h, QUALIFIER)[1] : h \in Headers(conf)}
            keys == {q[2] : q \in DOMAIN conf.items}
            over(k, sk) == {h \in QualifiedFor(conf, k, flow) : <<h, sk>> \in DOMAIN conf.items}
        IN /\ \A k \in bases, sk \in keys :
                IF over(k, sk) # {}
                THEN /\ FoldPair(<<k, sk>>) \in DOMAIN cm.flow_dict
                     /\ cm.flow_dict[FoldPair(<<k, sk>>)].value
                            \in {conf.items[<<h, sk>>] : h \in over(k, sk)}
                ELSE IF <<k, sk>> \in DOMAIN conf.items
                THEN /\ FoldPair(<<k, sk>>) \in DOMAIN cm.flow_dict
                     /\ cm.flow_dict[FoldPair(<<k, sk>>)].value = conf.items[<<k, sk>>]
                ELSE FoldPair(<<k, sk>>) \notin DOMAIN cm.flow_dict
           /\ \A n \in DOMAIN cm.flow_dict :
                /\ Len(Split(cm.flow_dict[n].key[1], QUALIFIER)) = 1
                /\ cm.flow_dict[n].key[1] \in bases
                /\ cm.flow_dict[n].key[2] \in keys

\* C5: every (section, key) of the flattened flow configuration has the
\* flow's value in the merged configuration, also when a required namespace
\* defines it; every other (section, key) of the stack keeps the stack's value.
C5_FlowLayerWins ==
    (cm.tag = "ok" /\ cm.flow_conf # NoConf) =>
        /\ DOMAIN cm.confs = DOMAIN cm.base \cup DOMAIN cm.flow_dict
        /\ \A n \in DOMAIN cm.flow_dict : cm.confs[n].value = cm.flow_dict[n].value
        /\ \A n \in DOMAIN cm.base \ DOMAIN cm.flow_dict :
                cm.confs[n].value = cm.base[n].value

C5_Witness ==
    /\ cm.tag = "ok"
    /\ cm.flow_conf # NoConf
    /\ \E n \in DOMAIN cm.base \cap DOMAIN cm.flow_dict :
          /\ cm.base[n].value # cm.flow_dict[n].value
          /\ cm.base[n].key # cm.flow_dict[n].key
          /\ cm.confs[n].value = cm.flow_dict[n].value
    /\ DOMAIN cm.base \ DOMAIN cm.flow_dict # {}

\* the namespaces of a call whose file is missing or does not parse
FailingNamespaces(namespaces) ==
    {Upper(namespaces[i]) : i \in {j \in 1..Len(namespaces) :
                                        ~Parses(Upper(namespaces[j]) \o PRM)}}

LoadingNamespaces(namespaces) ==
    {Upper(namespaces[i]) : i \in 1..Len(namespaces)} \ FailingNamespaces(namespaces)

\* C6: with required, get_configs fails with ConfigNotFound naming a namespace
\* whose file is missing or unparseable, and its path, as soon as there is
\* one; without required it never fails and returns exactly the namespaces
\* that loaded, under their upper-cased names.
C6_RequiredAllOrNothing ==
    ret.op = "get_configs" =>
        LET bad == FailingNamespaces(ret.arg.namespaces)
            good == LoadingNamespaces(ret.arg.namespaces)
        IN /\ (ret.arg.required /\ bad # {}) =>
                /\ ret.res.tag = "raise"
                /\ ret.res.type = "ConfigNotFound"
                /\ ret.res.namespace \in bad
                /\ ret.res.path = CM_PATH \o ret.res.namespace \o PRM
           /\ ~ret.arg.required =>
                /\ ret.res.tag = "return"
                /\ DOMAIN ret.res.value = good
                /\ \A n \in good : ret.res.value[n].items = store[n \o PRM].items

C6_Witness ==
    /\ ret.op = "get_configs"
    /\ ret.arg.required
    /\ Len(ret.arg.namespaces) = 2
    /\ Parses(Upper(ret.arg.namespaces[1]) \o PRM)
    /\ ~Parses(Upper(ret.arg.namespaces[2]) \o PRM)
    /\ ret.res.tag = "raise"

\* C7: cm[s] returns exactly the keys and values of the merged entries whose
\* section equals s case-insensitively, and fails with KeyError exactly when
\* there is no such entry.
C7_SectionLookup ==
    ret.op = "getitem_section" =>
        LET entries == {n \in DOMAIN cm.confs :
                            Lower(cm.confs[n].key[1]) = Lower(ret.arg)}
        IN IF entries = {}
           THEN ret.res.tag = "raise" /\ ret.res.type = "KeyError"
           ELSE /\ ret.res.tag = "return"
                /\ {<<ret.res.value[w].key, ret.res.value[w].value>> :
                        w \in DOMAIN ret.res.value}
                   = {<<cm.confs[n].key[2], cm.confs[n].value>> : n \in entries}

\* C8: every pair iteration yields can be looked up with cm[pair], which
\* gives the value stored for the pair, and len(cm) is the number of pairs
\* iteration yields.
C8_IterationRoundTrip ==
    /\ ret.op = "iter" =>
          /\ \A p \in DOMAIN ret.res :
                /\ ret.res[p].tag = "return"
                /\ \E n \in DOMAIN cm.confs :
                      cm.confs[n].key = p /\ cm.confs[n].value = ret.res[p].value
          /\ Cardinality(DOMAIN ret.res) = len_confs(cm.confs)
    /\ ret.op = "len" => ret.res = Cardinality(iter_keys(cm.confs))

C8_Witness ==
    /\ ret.op = "iter"
    /\ << <<"S">>, <<"Y">> >> \in DOMAIN ret.res
    /\ Cardinality(DOMAIN ret.res) >= 3
    /\ \A p \in DOMAIN ret.res : ret.res[p].tag = "return"

\* C9: two instances constructed with the same arguments against the same
\* files hold equal merged mappings.
C9_Idempotence ==
    (cm.tag = "ok" /\ cm2.tag = "ok") => cm.confs = cm2.confs

\* C10 as stated: for every filename get_flow_id returns a non-empty flow id
\* or fails with an error naming the filename.
C10_NeverEmptyOrAbsent ==
    (ret.op = "get_flow_id" /\ ret.arg # None) =>
        \/ ret.res.tag = "return" /\ ret.res.value # None /\ ret.res.value # <<>>
        \/ ret.res.tag = "raise" /\ ret.res.filename = ret.arg

\* C10, amended: for every non-empty filename get_flow_id returns a non-empty
\* flow id or fails with an error naming the filename; for an empty or absent
\* filename it returns None.
C10_NeverEmptyForAName ==
    ret.op = "get_flow_id" =>
        IF ret.arg # None /\ ret.arg # <<>>
        THEN \/ ret.res.tag = "return" /\ ret.res.value # None /\ ret.res.value # <<>>
             \/ ret.res.tag = "raise" /\ ret.res.filename = ret.arg
        ELSE ret.res.tag = "return" /\ ret.res.value = None

C10_Witness ==
    /\ ret.op = "get_flow_id"
    /\ ret.arg = <<"/", ".", "2","3","0","5","0","1", "1","2">>
    /\ ret.res.tag = "raise"
    /\ ret.res.filename = ret.arg

\* the components of the key a call was made with, as written by the caller
ShortcutParts == Split(ret.arg, <<":">>)

\* a key of one of the three forms of the grammar, with any casing
WellFormedShortcut(parts) ==
    /\ Len(parts) >= 4
    /\ Lower(parts[1]) = KW_CM
    /\ Lower(parts[2]) \in {KW_FLOW, KW_FILENAME} => Len(parts) >= 5

\* the constructor call the grammar gives the key
ShortcutArgs(parts) ==
    IF Lower(parts[2]) = KW_FLOW
    THEN [namespaces |-> <<>>, flow |-> parts[3], filename |-> None]
    ELSE IF Lower(parts[2]) = KW_FILENAME
    THEN [namespaces |-> <<>>, flow |-> None, filename |-> parts[3]]
    ELSE [namespaces |-> <<parts[2]>>, flow |-> None, filename |-> None]

\* the same value returned, or an exception of the same type raised
SameOutcome(r, e) ==
    /\ r.tag = e.tag
    /\ r.tag = "return" => r.value = e.value
    /\ r.tag = "raise" => r.type = e.type

\* C11: resolve_key on a key cm:flow:<flowid>:...:<section>:<key>,
\* cm:filename:<name>:...:<section>:<key> or cm:<namespace>:...:<section>:<key>,
\* in any casing, gives what the lookup of (section, key), the last two
\* components, gives on ConfigManager(flow=<flowid>), ConfigManager(filename=
\* <name>) or ConfigManager(<namespace>): the value, or the exception of the
\* construction or of the lookup.
C11_ShortcutLookup ==
    (ret.op = "resolve_key" /\ WellFormedShortcut(ShortcutParts)) =>
        LET parts == ShortcutParts
            pair == <<parts[Len(parts) - 1], parts[Len(parts)]>>
        IN \E inst \in ConstructOutcomes(store, ShortcutArgs(parts)) :
              SameOutcome(ret.res,
                          IF inst.tag = "failed" THEN inst.error
                          ELSE CIDGetItem(inst.confs, pair))

C11_Witness ==
    /\ ret.op = "resolve_key"
    /\ WellFormedShortcut(ShortcutParts)
    /\ ShortcutParts[1] = <<"C","m">>
    /\ ShortcutParts[2] = KW_FILENAME
    /\ ShortcutParts[3] = <<"F","_","D","2","3","0","5","0","1">>
    /\ ShortcutParts[5] = <<"Z">>
    /\ ret.res.tag = "return"

\* the paths of the sources the instance loaded: the file of every namespace
\* and, when a flow was requested, the source resolved for it
LoadedPaths ==
    {cm._configfiles[n].path : n \in DOMAIN cm._configfiles}
    \cup (IF cm.flow_conf # NoConf THEN {cm.flow_conf.path} ELSE {})

\* C12: files returns, without raising, a list without duplicates whose
\* elements are exactly the paths of the sources the instance loaded.
C12_FilesReportsLoaded ==
    ret.op = "files" =>
        /\ ret.res.tag = "return"
        /\ Range(ret.res.value) = LoadedPaths
        /\ Len(ret.res.value) = Cardinality(LoadedPaths)

\* a section header that carries a ::namespace qualifier
Qualified(header) == Len(Split(header, QUALIFIER)) > 1

\* C13: no pair of the stacked base configuration has a section header that
\* carries a '::' qualifier: of a FULL-style source only the entries under
\* unqualified headers are stacked.
C13_UnqualifiedOnly ==
    cm.tag = "ok" => \A p \in CIDKeys(cm.base) : ~Qualified(p[1])

\* the generic files of the directory that fail to parse
UnparseableGeneric ==
    {name \in DOMAIN store :
        StartsWith(name, GenPrefix) /\ EndsWith(name, PRM) /\ ~Parses(name)}

\* the directory without the file called name
Without(st, name) == [n \in DOMAIN st \ {name} |-> st[n]]

\* C14: whenever a generic file of the directory fails to parse,
\* get_config_by_flow gives what it gives for the directory without that file:
\* the same source returned, or the same not-found or ambiguity error with the
\* same paths; the unparseable file neither fails the resolution nor hides
\* another candidate.
C14_UnparseableGenericDropped ==
    ret.op = "get_config_by_flow" =>
        \A g \in UnparseableGeneric :
            ret.res = get_config_by_flow(Without(store, g), ret.arg)

C14_Witness ==
    /\ ret.op = "get_config_by_flow"
    /\ ~Parses(DedicatedName(ret.arg))
    /\ UnparseableGeneric = {NameGen1}
    /\ MatchingGeneric(ret.arg) = {NameGen2}
    /\ IsSource(ret.res, NameGen2)

\* C15: once an instance is constructed, no step changes its merged
\* configuration: after every read (one-string lookup, pair lookup, iteration,
\* length, sections, files), returning or raising, the pairs and their values
\* are those before it, hence those right after construction.
C15_ReadsLeaveConfs ==
    [][cm.tag = "ok" => (cm'.tag = "ok" /\ cm'.confs = cm.confs)]_vars

C15_Witness ==
    /\ cm.tag = "ok"
    /\ ret.op = "getitem_section"
    /\ ret.res.tag = "return"
    /\ cm.confs # EmptyDict
    /\ cm.confs = layer_flow(cm.base, cm.flow_dict)

\* C16: whenever execute has ended after cmd_thread.is_alive() found the
\* worker alive, it has raised CommandTimeoutException, the worker thread has
\* finished and the child process is not running any more.
C16_TimeoutRaises ==
    (shell.tag = "ok" /\ shell.main = "done" /\ shell.is_alive = "alive") =>
        /\ shell.result = Raised("CommandTimeoutException")
        /\ shell.worker = "finished"
        /\ shell.child # "running"

====
